---- MODULE Spec2Model ----
(***************************************************************************)
(* The self-playing snake game of snake_game_6.py as a state machine.      *)
(* One step of the machine is one iteration of main's while loop (a        *)
(* "tick").  Positions are pixel coordinates, as in the source: a cell is  *)
(* <<x, y>> with x and y multiples of CELL_SIZE.  Time is counted in       *)
(* frames of 1/FPS second, the period clock.tick(FPS) waits for.           *)
(***************************************************************************)
EXTENDS Integers, Sequences, FiniteSets, TLC

\* ---------------------------------------------------------------- bounds
\* The arena is 2*HalfCols columns by two rows of cells (600/20 by 400/20
\* in the source; both counts are even there, so that the centre the snake
\* starts on is a cell, and they are even here).
HalfCols == 2
\* Frames per second: time is counted in frames, and the obstacle period of
\* 2 seconds is 2*FPS frames (the source runs clock.tick(10)).
FPS == 1
\* The clock stops the model at MaxTime frames.
MaxTime == 11

\* ------------------------------------------------------ program constants
CELL_SIZE == 20
WIDTH == 2 * HalfCols * CELL_SIZE
HEIGHT == 2 * CELL_SIZE
UP == <<0, -1>>
DOWN == <<0, 1>>
LEFT == <<-1, 0>>
RIGHT == <<1, 0>>
ObstacleSeconds == 2
FoodReward == 5
ObstaclePenalty == 3
\* The obstacle period of line 158 in frames.
ObstaclePeriod == ObstacleSeconds * FPS
\* One loop iteration lasts one frame, which clock.tick waits for, or two
\* when the iteration overruns its frame.
Delays == {1, 2}

VARIABLES snake, direction, fruit, obstacles, last_obstacle_time, score,
          high_score, running, file, now, pc, ev, hist, events

vars == <<snake, direction, fruit, obstacles, last_obstacle_time, score,
          high_score, running, file, now, pc, ev, hist, events>>

\* ------------------------------------------------------------- sequences
Max(a, b) == IF a >= b THEN a ELSE b

\* Python's "p in list".
InList(p, list) == \E i \in 1..Len(list) : list[i] = p

\* A variant of ListRemove: nothing is deleted.
ListRemoveNothing(list, p) == list

\* A variant of ListRemove: the oldest element is deleted.
ListRemoveOldest(list, p) == Tail(list)

\* Python's list.remove(p): the first occurrence of p is deleted.
RECURSIVE ListRemove(_, _)
ListRemove(list, p) ==
    IF list = <<>> THEN <<>>
    ELSE IF Head(list) = p THEN Tail(list)
    ELSE <<Head(list)>> \o ListRemove(Tail(list), p)

\* A variant of ListPop: nothing goes.
ListPopNothing(list) == list

\* A variant of ListPop: the last two elements go.
ListPopTwo(list) == SubSeq(list, 1, Len(list) - 2)

\* list.pop() of line 155: the list without its last element.
ListPop(list) == SubSeq(list, 1, Len(list) - 1)

NoDuplicates(list) ==
    \A i, j \in 1..Len(list) : i # j => list[i] # list[j]

\* ------------------------------------------------- the high-score file
\* The file is absent, or holds a sequence of characters.
Digits == <<"0", "1", "2", "3", "4", "5", "6", "7", "8", "9">>
IsDigit(c) == \E i \in 1..10 : Digits[i] = c
DigitValue(c) == (CHOOSE i \in 1..10 : Digits[i] = c) - 1
IsSpace(c) == c \in {" ", "\n", "\t"}

\* Python's str(n) of an integer, as a sequence of characters.
RECURSIVE StrNat(_)
StrNat(n) ==
    IF n < 10 THEN <<Digits[n + 1]>>
    ELSE StrNat(n \div 10) \o <<Digits[(n % 10) + 1]>>
Str(n) == IF n < 0 THEN <<"-">> \o StrNat(-n) ELSE StrNat(n)

\* Python's str.strip(): leading and trailing whitespace is dropped.
RECURSIVE LStrip(_)
LStrip(s) ==
    IF s # <<>> /\ IsSpace(Head(s)) THEN LStrip(Tail(s)) ELSE s
RECURSIVE RStrip(_)
RStrip(s) ==
    IF s # <<>> /\ IsSpace(s[Len(s)]) THEN RStrip(SubSeq(s, 1, Len(s) - 1)) ELSE s
Strip(s) == RStrip(LStrip(s))

\* Python's int(s) of a string: an optional sign, then one or more digits.
RECURSIVE NatOf(_)
NatOf(s) ==
    IF s = <<>> THEN 0
    ELSE 10 * NatOf(SubSeq(s, 1, Len(s) - 1)) + DigitValue(s[Len(s)])
AllDigits(s) == s # <<>> /\ \A i \in 1..Len(s) : IsDigit(s[i])
IntParses(s) ==
    LET t == Strip(s)
    IN  IF t # <<>> /\ Head(t) \in {"-", "+"} THEN AllDigits(Tail(t))
        ELSE AllDigits(t)
IntOf(s) ==
    LET t == Strip(s)
    IN  IF Head(t) = "-" THEN 0 - NatOf(Tail(t))
        ELSE IF Head(t) = "+" THEN NatOf(Tail(t))
        ELSE NatOf(t)

Absent == [exists |-> FALSE, content |-> <<>>]
FileOf(s) == [exists |-> TRUE, content |-> s]

\* load_high_score raises ValueError: int() of a non-empty stripped content
\* that is not a number ("" or 0 is 0, which int() accepts).
LoadRaises(f) ==
    f.exists /\ Strip(f.content) # <<>> /\ ~IntParses(Strip(f.content))

\* load_high_score(): 0 for an absent file, int(read().strip() or 0) otherwise.
load_high_score(f) ==
    IF ~f.exists THEN 0
    ELSE IF Strip(f.content) = <<>> THEN 0
    ELSE IntOf(Strip(f.content))

\* A variant of save_high_score: the file is opened with "a".
save_high_score_append(f, s) == FileOf(f.content \o Str(s))

\* save_high_score(score): the file f is opened with "w", which empties it,
\* and str(score) is written.
save_high_score(f, s) == FileOf(Str(s))

\* The contents the file may have when the program starts.
InitialFiles ==
    { Absent, FileOf(<<>>), FileOf(<<" ", "7", "\n">>), FileOf(<<"x">>) }

\* ------------------------------------------------------------ the arena
\* The cells random_position can draw: randint(0, WIDTH // CELL_SIZE - 1)
\* times CELL_SIZE, and the same for the rows.
\* A variant of Cells: randint's upper limits are taken one too far
\* (WIDTH // CELL_SIZE instead of WIDTH // CELL_SIZE - 1).
CellsPastTheEdge ==
    { <<c * CELL_SIZE, r * CELL_SIZE>> :
        c \in 0..(WIDTH \div CELL_SIZE), r \in 0..(HEIGHT \div CELL_SIZE) }

\* The positions randint can produce on lines 55-56.
Cells ==
    { <<c * CELL_SIZE, r * CELL_SIZE>> :
        c \in 0..((WIDTH \div CELL_SIZE) - 1), r \in 0..((HEIGHT \div CELL_SIZE) - 1) }

InBounds(p) == 0 <= p[1] /\ p[1] < WIDTH /\ 0 <= p[2] /\ p[2] < HEIGHT

\* A variant of Step: the head moves by half a cell.
StepHalfCell(p, move) ==
    <<p[1] + move[1] * (CELL_SIZE \div 2), p[2] + move[2] * (CELL_SIZE \div 2)>>

\* Lines 129-130: the cell one step from p in the direction move.
Step(p, move) == <<p[1] + move[1] * CELL_SIZE, p[2] + move[2] * CELL_SIZE>>

\* random_position(exclude): the positions the sampling loop can return.
\* The empty set means that the loop never ends.
random_position(exclude) == { p \in Cells : ~InList(p, exclude) }

\* A variant of ValidMove: the obstacles are not looked at.
ValidMoveNoObstacles(s, obs, move) ==
    /\ InBounds(Step(s[1], move))
    /\ ~InList(Step(s[1], move), s)

\* A variant of ValidMove: the snake is not looked at.
ValidMoveNoSnake(s, obs, move) ==
    /\ InBounds(Step(s[1], move))
    /\ ~InList(Step(s[1], move), obs)

\* get_valid_directions(snake, obstacles): the list of moves, in the order
\* UP, DOWN, LEFT, RIGHT, whose cell is inside and neither snake nor obstacle.
MoveOrder == <<UP, DOWN, LEFT, RIGHT>>
ValidMove(s, obs, move) ==
    /\ InBounds(Step(s[1], move))
    /\ ~InList(Step(s[1], move), s)
    /\ ~InList(Step(s[1], move), obs)
get_valid_directions(s, obs) ==
    SelectSeq(MoveOrder, LAMBDA move : ValidMove(s, obs, move))

Abs(n) == IF n < 0 THEN 0 - n ELSE n
Distance(p, q) == Abs(q[1] - p[1]) + Abs(q[2] - p[2])

\* A variant of Truthy: a tuple is true when its first component is not 0
\* (UP and DOWN would be false).
TruthyFirst(t) == Len(t) > 0 /\ t[1] # 0

\* Python's None, and the truth value of a tuple (an empty one is false).
None == <<>>
Truthy(t) == Len(t) > 0

\* A variant of BestMove: the test is <=, so the last minimal move wins.
RECURSIVE BestMoveLast(_, _, _, _, _, _)
BestMoveLast(s, food, moves, i, best, min) ==
    IF i > Len(moves) THEN best
    ELSE LET distance == Abs(food[1] - Step(s[1], moves[i])[1])
                         + Abs(food[2] - Step(s[1], moves[i])[2])
         IN  IF min.inf \/ distance <= min.val
             THEN BestMoveLast(s, food, moves, i + 1, moves[i],
                               [inf |-> FALSE, val |-> distance])
             ELSE BestMoveLast(s, food, moves, i + 1, best, min)

\* The loop of lines 86-96 over valid_moves[i..]: best is best_move, and
\* min is min_distance, infinite at first.
RECURSIVE BestMove(_, _, _, _, _, _)
BestMove(s, food, moves, i, best, min) ==
    IF i > Len(moves) THEN best
    ELSE LET distance == Distance(Step(s[1], moves[i]), food)
         IN  IF min.inf \/ distance < min.val
             THEN BestMove(s, food, moves, i + 1, moves[i], [inf |-> FALSE, val |-> distance])
             ELSE BestMove(s, food, moves, i + 1, best, min)

\* Variants of get_direction_to_food: without the fallback of lines 79-80
\* best_move stays None; with another fallback LEFT is returned.
get_direction_no_fallback(s, food, obs) ==
    LET valid_moves == get_valid_directions(s, obs)
    IN  {BestMove(s, food, valid_moves, 1, None, [inf |-> TRUE, val |-> 0])}
get_direction_fallback_left(s, food, obs) ==
    LET valid_moves == get_valid_directions(s, obs)
    IN  IF valid_moves = <<>> THEN {LEFT}
        ELSE {BestMove(s, food, valid_moves, 1, None, [inf |-> TRUE, val |-> 0])}

\* A variant of get_direction_to_food: the moves are tried in no fixed
\* order, so that any of the nearest valid moves can be returned.
get_direction_unordered(s, food, obs) ==
    LET valid_moves == get_valid_directions(s, obs)
        near(m) == Distance(Step(s[1], m), food)
    IN  IF valid_moves = <<>> THEN {RIGHT}
        ELSE { valid_moves[i] : i \in
                 { j \in 1..Len(valid_moves) :
                     \A k \in 1..Len(valid_moves) :
                         near(valid_moves[j]) <= near(valid_moves[k]) } }

\* get_direction_to_food(snake, food, obstacles): the set of directions the
\* call can return (more than one only through random.choice).
get_direction_to_food(s, food, obs) ==
    LET valid_moves == get_valid_directions(s, obs)
        best_move == BestMove(s, food, valid_moves, 1, None, [inf |-> TRUE, val |-> 0])
    IN  IF valid_moves = <<>> THEN {RIGHT}
        ELSE IF Truthy(best_move) THEN {best_move}
        ELSE { valid_moves[i] : i \in 1..Len(valid_moves) }

\* Variants of Collision: the walls alone, the snake alone.
CollisionWallsOnly(new_head, s) ==
    \/ new_head[1] < 0 \/ new_head[1] >= WIDTH
    \/ new_head[2] < 0 \/ new_head[2] >= HEIGHT
CollisionSnakeOnly(new_head, s) == InList(new_head, s)

\* The collision test of lines 133-135.
Collision(new_head, s) ==
    \/ InList(new_head, s)
    \/ new_head[1] < 0 \/ new_head[1] >= WIDTH
    \/ new_head[2] < 0 \/ new_head[2] >= HEIGHT

\* A variant of NewHighScore: every score is saved.
NewHighScoreAlways(sc, high) == TRUE

\* A variant of NewHighScore: the test is the other way round.
NewHighScoreBelow(sc, high) == sc < high

\* A variant of NewHighScore: a score equal to the high score counts.
NewHighScoreOrEqual(sc, high) == sc >= high

\* The test of line 151 for a new high score.
NewHighScore(sc, high) == sc > high

\* A variant of ObstacleDue: due when the period has just elapsed.
ObstacleDueAtPeriod(t, last) == t - last >= ObstaclePeriod

\* The test of line 158 for a due obstacle.
ObstacleDue(t, last) == t - last > ObstaclePeriod

\* A variant of Penalty: no floor.
PenaltyNoFloor(sc) == sc - ObstaclePenalty

\* The penalty of line 141.
Penalty(sc) == Max(0, sc - ObstaclePenalty)

\* Variants of FruitExclude: the obstacles alone, the snake alone.
FruitExcludeObstaclesOnly(s, obs) == obs
FruitExcludeSnakeOnly(s, obs) == s

\* A variant of ObstacleExclude: the snake alone.
ObstacleExcludeSnakeOnly(s, obs, f) == s

\* The lists the new fruit (line 149) and the new obstacle (line 159) avoid.
FruitExclude(s, obs) == s \o obs
ObstacleExclude(s, obs, f) == s \o obs \o <<f>>

\* A variant of TimerReset: the timer is left as it was.
TimerKeep(t, last) == last

\* Line 160: the timer is set to the clock, read in the frame of the test.
TimerReset(t, last) == t

\* ------------------------------------------------------------ the state
\* snake .. running are main's variables; file is highscore.txt; now is the
\* clock time.time() reads, in frames since main started.  pc is "loop"
\* while the loop runs, "done" after it has ended, "hung" inside a
\* random_position that never returns, "crashed" after an exception.
\* events is pygame's event queue, which main never reads.
\* ev records what the last iteration did: its kind ("init", "collide",
\* "move", "eat", "hang", "crash"), whether the head hit an obstacle, whether
\* an obstacle was spawned, whether the high score was saved, and whether
\* the test of line 158 saw exactly the period since the last spawn.
\* hist records the run: the high score loaded, the largest score offered to
\* the test of line 151 and the largest score saved (-1: none yet), the
\* number of hits and the points they have taken off the score, the number
\* of spawns, the time of the last spawn (0: none yet), and whether every
\* iteration so far has lasted exactly one frame.
Event(kind, hit, spawned, saved, at_period) ==
    [kind |-> kind, hit |-> hit, spawned |-> spawned, saved |-> saved,
     at_period |-> at_period]

Count(b) == IF b THEN 1 ELSE 0

\* What line 141 takes off the score of the state when the head hits.
Lost(hit) == IF hit THEN score - Penalty(score) ELSE 0

\* Lines 111-117, up to the first test of the loop.
Init ==
    /\ snake = << <<WIDTH \div 2, HEIGHT \div 2>> >>
    /\ direction = RIGHT
    /\ fruit \in random_position(snake)
    /\ obstacles = <<>>
    /\ last_obstacle_time = 0
    /\ now = 0
    /\ score = 0
    /\ file \in InitialFiles
    /\ high_score = IF LoadRaises(file) THEN 0 ELSE load_high_score(file)
    /\ running = ~LoadRaises(file)
    /\ pc = IF LoadRaises(file) THEN "crashed" ELSE "loop"
    /\ ev = Event("init", FALSE, FALSE, FALSE, FALSE)
    /\ hist = [loaded |-> high_score, offered |-> -1, saved |-> -1,
               hits |-> 0, lost |-> 0, spawns |-> 0, last_spawn |-> 0,
               fixed |-> TRUE]
    /\ events = <<>>

\* Lines 133-137: the collision ends the loop, nothing else is touched
\* (direction was assigned on line 126).
Terminate(dir) ==
    /\ direction' = dir
    /\ running' = FALSE
    /\ pc' = "done"
    /\ ev' = Event("collide", FALSE, FALSE, FALSE, FALSE)
    /\ UNCHANGED <<snake, fruit, obstacles, last_obstacle_time, score,
                   high_score, file, now, hist>>

\* The iteration stops inside a random_position that never returns: the
\* assignments made before the call stand.
Hang(dir, s, f, obs, sc, high, fl, hit, saved, offered) ==
    /\ direction' = dir
    /\ snake' = s
    /\ fruit' = f
    /\ obstacles' = obs
    /\ score' = sc
    /\ high_score' = high
    /\ file' = fl
    /\ pc' = "hung"
    /\ ev' = Event("hang", hit, FALSE, saved, FALSE)
    /\ hist' = [hist EXCEPT !.offered = Max(@, offered),
                            !.saved = IF saved THEN Max(@, high) ELSE @,
                            !.hits = @ + Count(hit),
                            !.lost = @ + Lost(hit)]
    /\ UNCHANGED <<running, last_obstacle_time, now>>

\* save_high_score raises OSError and the exception leaves main: the
\* process is over and main's variables with it, so the model keeps the
\* values the last completed iteration left (a step into "crashed" is no
\* iteration of the loop).  The file is as it was (open
\* failed) or empty (the write failed after open had truncated it).
Crash ==
    /\ pc' = "crashed"
    /\ file' \in {file, FileOf(<<>>)}
    /\ ev' = Event("crash", FALSE, FALSE, FALSE, FALSE)
    /\ UNCHANGED <<snake, direction, fruit, obstacles, last_obstacle_time,
                   score, high_score, running, now, hist>>

\* Lines 157-177: the obstacle cadence, then the wait for the next frame.
Cadence(dir, s, f, obs, sc, high, fl, hit, eats, saved, offered) ==
    LET due == ObstacleDue(now, last_obstacle_time)
        spots == random_position(ObstacleExclude(s, obs, f))
    IN  IF due /\ spots = {}
        THEN Hang(dir, s, f, obs, sc, high, fl, hit, saved, offered)
        ELSE \E o \in (IF due THEN spots ELSE {None}), d \in Delays :
               /\ now + d <= MaxTime
               /\ direction' = dir
               /\ snake' = s
               /\ fruit' = f
               /\ obstacles' = IF due THEN Append(obs, o) ELSE obs
               /\ last_obstacle_time' =
                      IF due THEN TimerReset(now, last_obstacle_time)
                      ELSE last_obstacle_time
               /\ score' = sc
               /\ high_score' = high
               /\ file' = fl
               /\ now' = now + d
               /\ ev' = Event(IF eats THEN "eat" ELSE "move", hit, due, saved,
                              now - last_obstacle_time = ObstaclePeriod)
               /\ hist' = [hist EXCEPT
                             !.offered = Max(@, offered),
                             !.saved = IF saved THEN Max(@, high) ELSE @,
                             !.hits = @ + Count(hit),
                             !.lost = @ + Lost(hit),
                             !.spawns = @ + Count(due),
                             !.last_spawn = IF due THEN now ELSE @,
                             !.fixed = @ /\ d = 1]
               /\ UNCHANGED <<running, pc>>

\* Lines 139-155: the obstacle hit, the move, the food.  Writing the file
\* on line 153 can raise OSError.
Advance(dir, new_head) ==
    LET hit == InList(new_head, obstacles)
        score1 == IF hit THEN Penalty(score) ELSE score
        obst1 == IF hit THEN ListRemove(obstacles, new_head) ELSE obstacles
        snake1 == <<new_head>> \o snake
        eats == new_head = fruit
        fruits == IF eats THEN random_position(FruitExclude(snake1, obst1))
                  ELSE {fruit}
        score2 == IF eats THEN score1 + FoodReward ELSE score1
        newhigh == eats /\ NewHighScore(score2, high_score)
        high2 == IF newhigh THEN score2 ELSE high_score
        snake2 == IF eats THEN snake1 ELSE ListPop(snake1)
        offered == IF eats THEN score2 ELSE -1
    IN  IF fruits = {}
        THEN Hang(dir, snake1, fruit, obst1, score1, high_score, file, hit, FALSE, -1)
        ELSE \/ \E f \in fruits :
                  Cadence(dir, snake2, f, obst1, score2, high2,
                          IF newhigh THEN save_high_score(file, high2) ELSE file,
                          hit, eats, newhigh, offered)
             \/ newhigh /\ Crash

\* One iteration of the loop of lines 120-177.
Tick ==
    /\ running
    /\ pc = "loop"
    /\ \E new_direction \in get_direction_to_food(snake, fruit, obstacles) :
         LET dir == IF Truthy(new_direction) THEN new_direction ELSE direction
             new_head == Step(snake[1], dir)
         IN  IF Collision(new_head, snake)
             THEN Terminate(dir)
             ELSE Advance(dir, new_head)
    /\ UNCHANGED events

Next == Tick

Spec == Init /\ [][Next]_vars

\* ------------------------------------------------------ the quit signal
\* The window is closed while the loop runs: pygame puts a QUIT event in
\* its queue.  The loop of lines 120-177 has no pygame.event.get().
PostQuit ==
    /\ pc = "loop"
    /\ events = <<>>
    /\ events' = <<"QUIT">>
    /\ UNCHANGED <<snake, direction, fruit, obstacles, last_obstacle_time,
                   score, high_score, running, file, now, pc, ev, hist>>

QuitNext == Tick \/ PostQuit

QuitSpec == Init /\ [][QuitNext]_vars

\* ------------------------------------------------- the controller alone
\* get_valid_directions and get_direction_to_food are functions of their
\* arguments.  ChooseSpec calls get_direction_to_food once on arbitrary
\* arguments: any snake of one or two cells, any list of up to two
\* obstacles, any food cell.  After the call direction holds the value
\* returned and pc is "returned".
SnakeLens == {1, 2}
ObstacleLens == {0, 1, 2}
CellLists(lens) == UNION { [1..n -> Cells] : n \in lens }

ChooseInit ==
    /\ snake \in CellLists(SnakeLens)
    /\ obstacles \in CellLists(ObstacleLens)
    /\ fruit \in Cells
    /\ direction = None
    /\ last_obstacle_time = 0
    /\ now = 0
    /\ score = 0
    /\ file = Absent
    /\ high_score = 0
    /\ running = TRUE
    /\ pc = "call"
    /\ ev = Event("init", FALSE, FALSE, FALSE, FALSE)
    /\ hist = [loaded |-> 0, offered |-> -1, saved |-> -1,
               hits |-> 0, lost |-> 0, spawns |-> 0, last_spawn |-> 0,
               fixed |-> TRUE]
    /\ events = <<>>

\* The call of line 124.
Choose ==
    /\ pc = "call"
    /\ direction' \in get_direction_to_food(snake, fruit, obstacles)
    /\ pc' = "returned"
    /\ UNCHANGED <<snake, fruit, obstacles, last_obstacle_time, score,
                   high_score, running, file, now, ev, hist, events>>

ChooseSpec == ChooseInit /\ [][Choose]_vars

\* ---------------------------------------------------- the sampler alone
\* random_position is a loop (lines 54-58): draw a position, return it if
\* it is not in exclude, draw again otherwise.  SampleSpec runs that loop
\* for the call of line 149, exclude = snake + obstacles, on any snake of
\* one or two cells or the snake that fills the arena (FullGrid), with up
\* to one obstacle.  fruit holds pos, the position drawn last; before the
\* first draw it is the food just eaten, under the head.  pc is "sampling"
\* inside the loop and "returned" after line 58.
SampleObstacleLens == {0, 1}

FullGrid ==
    [i \in 1..((WIDTH \div CELL_SIZE) * (HEIGHT \div CELL_SIZE)) |->
        <<((i - 1) % (WIDTH \div CELL_SIZE)) * CELL_SIZE,
          ((i - 1) \div (WIDTH \div CELL_SIZE)) * CELL_SIZE>>]

SampleInit ==
    /\ snake \in CellLists(SnakeLens) \cup {FullGrid}
    /\ obstacles \in CellLists(SampleObstacleLens)
    /\ fruit = snake[1]
    /\ direction = None
    /\ last_obstacle_time = 0
    /\ now = 0
    /\ score = 0
    /\ file = Absent
    /\ high_score = 0
    /\ running = TRUE
    /\ pc = "sampling"
    /\ ev = Event("init", FALSE, FALSE, FALSE, FALSE)
    /\ hist = [loaded |-> 0, offered |-> -1, saved |-> -1,
               hits |-> 0, lost |-> 0, spawns |-> 0, last_spawn |-> 0,
               fixed |-> TRUE]
    /\ events = <<>>

\* Lines 55-57 when the position drawn is in exclude: the loop goes round.
DrawTaken ==
    /\ pc = "sampling"
    /\ \E pos \in Cells :
         /\ InList(pos, FruitExclude(snake, obstacles))
         /\ fruit' = pos
    /\ pc' = "sampling"
    /\ UNCHANGED <<snake, direction, obstacles, last_obstacle_time, score,
                   high_score, running, file, now, ev, hist, events>>

\* Lines 55-58 when the position drawn is not in exclude: it is returned.
DrawFree ==
    /\ pc = "sampling"
    /\ \E pos \in Cells :
         /\ ~InList(pos, FruitExclude(snake, obstacles))
         /\ fruit' = pos
    /\ pc' = "returned"
    /\ UNCHANGED <<snake, direction, obstacles, last_obstacle_time, score,
                   high_score, running, file, now, ev, hist, events>>

SampleNext == DrawTaken \/ DrawFree

\* random.randint draws every position again and again with the same
\* probability, so a draw that can come out free does not stay away for
\* ever: weak fairness of DrawFree.
SampleSpec == SampleInit /\ [][SampleNext]_vars /\ WF_vars(DrawFree)

\* ---------------------------------------------------------------- claims
\* In a step of the loop, Candidate is the cell head + heading of lines
\* 129-130 (the heading of this iteration is direction').  Its collision is
\* stated here from the arena and the snake, not through Collision.
Candidate == Step(snake[1], direction')
Terminal(c) == ~InBounds(c) \/ InList(c, snake)

\* C1: at every tick boundary, after any number of ticks, the snake's cell
\* sequence holds no cell twice: a candidate head that is already a snake
\* cell ends the run instead of being inserted.
C1_SnakeHasNoDuplicates == NoDuplicates(snake)

\* A run ended by a candidate head that was a cell of a snake of length 3 or
\* more.
C1_SelfCollisionRejected ==
    /\ pc = "done"
    /\ Len(snake) >= 3
    /\ InList(Step(snake[1], direction), snake)

\* C2: the score is a non-negative integer in every reachable state, after
\* any sequence of rewards of 5 and floored penalties of 3.
C2_ScoreNonNegative == score \in Nat

\* An obstacle was hit with a score below the penalty: the floor acted.
C2_PenaltyFloored == ev.hit /\ score = 0 /\ hist.offered >= FoodReward

\* C3: right after every relocation of the food, and after its first
\* placement, the food is on no snake cell (the new head included) and on
\* no active obstacle cell.
C3_FoodOffSnakeAndObstacles ==
    ev.kind \in {"init", "eat"} =>
        /\ fruit \in Cells
        /\ ~InList(fruit, snake)
        /\ ~InList(fruit, obstacles)

\* The food was relocated with obstacles in the arena and a grown snake.
C3_RelocatedAmongObstacles ==
    ev.kind = "eat" /\ Len(obstacles) >= 1 /\ Len(snake) >= 3

\* C4: in a run the in-memory high score never decreases, from its loaded
\* value on, and whenever save_high_score has just returned the file reads
\* back as the in-memory high score.
C4_HighScoreMonotoneAndPersisted ==
    /\ [](high_score >= hist.loaded)
    /\ [](ev.saved => ~LoadRaises(file) /\ load_high_score(file) = high_score)
    /\ [][high_score' >= high_score]_vars

\* A commit has just raised a high score that was loaded from the file.
C4_CommittedAboveLoaded ==
    ev.saved /\ hist.loaded > 0 /\ high_score > hist.loaded

\* C5: after any sequence of commits (the test of line 151 with the save of
\* line 153), a load returns the largest score committed so far: the file
\* reads back as the largest score written, which is the largest of the
\* loaded value and every score offered; a lower score offered later leaves
\* the stored value alone.
C5_LoadReturnsLargestCommitted ==
    (pc # "crashed" /\ hist.offered >= 0) =>
        LET loaded == IF LoadRaises(file) THEN -1 ELSE load_high_score(file)
        IN  /\ loaded = Max(hist.loaded, hist.offered)
            /\ hist.saved >= 0 => loaded = hist.saved

\* After a save, a lower score was offered and not saved.
C5_LowerCandidateOffered ==
    /\ pc = "loop"
    /\ ev.kind = "eat"
    /\ ~ev.saved
    /\ hist.saved >= 0
    /\ score < hist.saved

\* A step of the loop that is an iteration: the step into "crashed" is the
\* exception leaving main.
Iteration == pc = "loop" /\ pc' # "crashed"
\* An iteration that passed the collision test and reached its end.
Completed == pc = "loop" /\ pc' = "loop"

\* C6: in a tick whose candidate head is out of bounds or is a snake cell
\* (the tail included), the loop ends, and snake, food, obstacles, score,
\* high score and the stored high score are as they were.
C6_TerminalTickChangesNothing ==
    [][ (Iteration /\ Terminal(Candidate)) =>
            /\ ~running'
            /\ pc' = "done"
            /\ UNCHANGED <<snake, fruit, obstacles, score, high_score, file>>
      ]_vars

\* A run that ended against the wall with a grown snake, a score and an
\* obstacle in the arena.
C6_EndedAtWall ==
    /\ pc = "done"
    /\ ~InBounds(Step(snake[1], direction))
    /\ Len(snake) >= 2
    /\ Len(obstacles) >= 1

\* C7: in a non-terminal tick whose candidate head is an active obstacle
\* cell, the score becomes max(0, score - 3), that obstacle and no other
\* leaves the active set, the snake moves onto the cell, and the loop keeps
\* running.
C7_ObstacleHit ==
    [][ (Iteration /\ ~Terminal(Candidate) /\ InList(Candidate, obstacles)) =>
            LET kept == SubSeq(obstacles', 1, Len(obstacles) - 1)
            IN  /\ score' = Max(0, score - ObstaclePenalty)
                /\ Len(obstacles') \in {Len(obstacles) - 1, Len(obstacles)}
                /\ ~InList(Candidate, kept)
                /\ \A i \in 1..Len(obstacles) :
                       obstacles[i] # Candidate => InList(obstacles[i], kept)
                /\ snake'[1] = Candidate
                /\ Len(snake') = Len(snake)
                /\ running'
                /\ pc' = "loop"
      ]_vars

\* An obstacle was hit, the score stayed positive and the loop runs on.
C7_HitAndRunning == ev.hit /\ score > 0 /\ running /\ pc = "loop"

\* C8: in a non-terminal tick whose candidate head is the food cell, the
\* score grows by exactly 5, the food moves to a cell off the snake and off
\* the obstacles, and a score above the high score becomes the high score
\* and is committed in that tick; in a tick whose head does not land on the
\* food, food and high score (and the file) are as they were.
C8_FoodEaten ==
    [][ (pc = "loop" /\ pc' \in {"loop", "done"}) =>
            IF pc' = "loop" /\ Candidate = fruit
            THEN /\ score' = score + FoodReward
                 /\ fruit' \in Cells
                 /\ ~InList(fruit', snake')
                 /\ ~InList(fruit', obstacles')
                 /\ IF score' > high_score
                    THEN /\ high_score' = score'
                         /\ ~LoadRaises(file')
                         /\ load_high_score(file') = score'
                    ELSE high_score' = high_score /\ file' = file
            ELSE fruit' = fruit /\ high_score' = high_score /\ file' = file
      ]_vars

\* The food was eaten for a new high score among obstacles.
C8_NewHighScoreCommitted ==
    ev.kind = "eat" /\ ev.saved /\ pc = "loop" /\ Len(obstacles) >= 1

\* The time since the last spawn (or since the start) that the test of line
\* 158 sees in this step, and what the step does to the obstacles.
Elapsed == now - last_obstacle_time
Hits == IF InList(Candidate, obstacles) THEN 1 ELSE 0
SpawnedOne ==
    /\ Len(obstacles') = Len(obstacles) - Hits + 1
    /\ last_obstacle_time' = now
SpawnedNone ==
    /\ Len(obstacles') = Len(obstacles) - Hits
    /\ last_obstacle_time' = last_obstacle_time

\* C9, as claimed: in every non-terminal tick, if the time since the last
\* spawn (or since the start) is at least T = 2 s at the cadence check, the
\* case of exactly T included, exactly one obstacle is spawned and the
\* timer is reset.
C9_SpawnAtOrAfterPeriod ==
    [][ (Completed /\ Elapsed >= ObstaclePeriod) => SpawnedOne ]_vars

\* C9, amended: in every non-terminal tick that reaches its end, exactly
\* one obstacle is spawned and the timer is reset if the time since the
\* last spawn is more than T at the cadence check; at T exactly, and before,
\* nothing is spawned and the timer is left alone.  A tick whose spawn finds
\* no free cell does not end, and spawns nothing.
C9_SpawnAfterPeriod ==
    [][ /\ Completed =>
              IF Elapsed > ObstaclePeriod THEN SpawnedOne ELSE SpawnedNone
        /\ (pc = "loop" /\ pc' = "hung") =>
              /\ Len(obstacles') = Len(obstacles) - Hits
              /\ last_obstacle_time' = last_obstacle_time
      ]_vars

\* A tick ended whose cadence check saw exactly T, and nothing was spawned.
C9_NothingSpawnedAtPeriod ==
    /\ ev.kind \in {"move", "eat"}
    /\ ev.at_period
    /\ ~ev.spawned

\* C10: no obstacle is spawned before T has elapsed; two consecutive spawns
\* are at least T apart, so the k-th is not before k*T; a tick spawns at
\* most one obstacle; and under a fixed clock (every tick one frame) with
\* no obstacle hit the set is empty at every tick up to T, has exactly one
\* element from the first tick after T and does not grow again until 2T.
C10_ObstacleCadence ==
    /\ [][ (Iteration /\ Len(obstacles') > Len(obstacles) - Hits) =>
               /\ Len(obstacles') = Len(obstacles) - Hits + 1
               /\ now - hist.last_spawn >= ObstaclePeriod
               /\ hist'.last_spawn = now
         ]_vars
    /\ [] /\ hist.last_spawn >= hist.spawns * ObstaclePeriod
          /\ Len(obstacles) = hist.spawns - hist.hits
          /\ (hist.fixed /\ pc = "loop" /\ hist.hits = 0) =>
                 /\ now <= ObstaclePeriod + 1 => Len(obstacles) = 0
                 /\ (/\ ObstaclePeriod + 2 <= now
                     /\ now <= 2 * ObstaclePeriod + 2) => Len(obstacles) = 1

\* Under the fixed clock the run is at the last tick before the second
\* spawn, with the one obstacle of the first.
C10_OneObstacleUntilTwoPeriods ==
    /\ hist.fixed
    /\ pc = "loop"
    /\ hist.hits = 0
    /\ now = 2 * ObstaclePeriod + 2
    /\ Len(obstacles) = 1

\* C11: an obstacle is never spawned on a cell of the snake, on the food or
\* on another obstacle, and at every tick boundary the active obstacles are
\* pairwise distinct, off the snake and off the food.
C11_ObstaclesOnFreeCells ==
    /\ [][ (Iteration /\ Len(obstacles') > Len(obstacles) - Hits) =>
               LET o == obstacles'[Len(obstacles')]
               IN  /\ o \in Cells
                   /\ ~InList(o, snake')
                   /\ o # fruit'
                   /\ ~InList(o, ListPop(obstacles'))
         ]_vars
    /\ [](pc \in {"loop", "done"} =>
              /\ NoDuplicates(obstacles)
              /\ \A i \in 1..Len(obstacles) :
                     ~InList(obstacles[i], snake) /\ obstacles[i] # fruit)

\* An obstacle was spawned beside another one and a grown snake.
C11_SpawnedAmongOthers ==
    ev.spawned /\ pc = "loop" /\ Len(obstacles) >= 2 /\ Len(snake) >= 2

\* C12: obstacles do not expire.  An active obstacle leaves the list only
\* in a tick in which the head moves onto its cell, it is then gone (removed
\* once, the others staying), and in every other tick the obstacles that
\* were active are all still there, in their order.
C12_ObstaclesPersistUntilHit ==
    [][ pc = "loop" =>
          /\ \A i \in 1..Len(obstacles) :
                 ~InList(obstacles[i], obstacles') =>
                     snake'[1] = obstacles[i] /\ snake[1] # obstacles[i]
          /\ IF InList(snake'[1], obstacles)
             THEN /\ ~InList(snake'[1], obstacles')
                  /\ Len(obstacles') >= Len(obstacles) - 1
             ELSE SubSeq(obstacles', 1, Len(obstacles)) = obstacles
      ]_vars

\* The head took the younger of two obstacles and the older one is still
\* there.
C12_OlderObstacleKept ==
    ev.hit /\ ~ev.spawned /\ pc = "loop" /\ Len(obstacles) >= 1

\* The four directions whose cell from the head is in bounds, is no snake
\* cell and is no obstacle, stated from the arena; the Manhattan distance
\* from that cell to the food; the place of a direction in the order Up,
\* Down, Left, Right.
FourMoves == {UP, DOWN, LEFT, RIGHT}
FreeCell(c) ==
    /\ 0 <= c[1] /\ c[1] < WIDTH /\ 0 <= c[2] /\ c[2] < HEIGHT
    /\ \A i \in 1..Len(snake) : snake[i] # c
    /\ \A i \in 1..Len(obstacles) : obstacles[i] # c
ValidSet == { m \in FourMoves : FreeCell(Step(snake[1], m)) }
ToFood(m) ==
    LET c == Step(snake[1], m)
        dx == IF c[1] >= fruit[1] THEN c[1] - fruit[1] ELSE fruit[1] - c[1]
        dy == IF c[2] >= fruit[2] THEN c[2] - fruit[2] ELSE fruit[2] - c[2]
    IN  dx + dy
Rank(m) == IF m = UP THEN 1 ELSE IF m = DOWN THEN 2 ELSE IF m = LEFT THEN 3 ELSE 4

\* C13: get_valid_directions returns exactly the directions, of the four,
\* whose cell is in bounds, is no snake cell and is no obstacle cell, and
\* when there is one the direction get_direction_to_food returns is one of
\* them.
C13_ValidMovesAndChoice ==
    LET valid_moves == get_valid_directions(snake, obstacles)
    IN  /\ { valid_moves[i] : i \in 1..Len(valid_moves) } = ValidSet
        /\ Len(valid_moves) = Cardinality(ValidSet)
        /\ (pc = "returned" /\ ValidSet # {}) => direction \in ValidSet

\* A call with one valid move, one neighbour taken by the snake and one by
\* an obstacle.
C13_OneMoveLeft ==
    /\ pc = "returned"
    /\ Cardinality(ValidSet) = 1
    /\ \E m \in FourMoves : InList(Step(snake[1], m), obstacles)
    /\ \E m \in FourMoves : InList(Step(snake[1], m), Tail(snake))

\* C14: when there is a valid move, get_direction_to_food returns the valid
\* direction whose cell has the least Manhattan distance to the food, and
\* of several with the least distance the first in the order Up, Down,
\* Left, Right; with the food to the right in the head's row and nothing
\* in the way it returns Right.
C14_NearestFirstInOrder ==
    (pc = "returned" /\ ValidSet # {}) =>
        /\ direction \in ValidSet
        /\ \A m \in ValidSet :
               /\ ToFood(direction) <= ToFood(m)
               /\ ToFood(m) = ToFood(direction) => Rank(direction) <= Rank(m)
        /\ (/\ Len(snake) = 1
            /\ obstacles = <<>>
            /\ fruit[2] = snake[1][2]
            /\ fruit[1] > snake[1][1]) => direction = RIGHT

\* A call in which two valid moves are equally near the food.
C14_TieBroken ==
    /\ pc = "returned"
    /\ \E m \in ValidSet : m # direction /\ ToFood(m) = ToFood(direction)

\* C15: when no move is valid (every neighbour of the head is out of
\* bounds, a snake cell or an obstacle), get_direction_to_food returns
\* Right.
C15_FallbackRight ==
    (pc = "returned" /\ ValidSet = {}) => direction = RIGHT

\* A call from a head shut in by the wall, the snake and an obstacle.
C15_ShutIn ==
    /\ pc = "returned"
    /\ ValidSet = {}
    /\ direction = RIGHT
    /\ \E m \in FourMoves : InList(Step(snake[1], m), obstacles)
    /\ \E m \in FourMoves : InList(Step(snake[1], m), Tail(snake))

\* C16, as claimed: whenever no move is valid at the start of a tick, the
\* fallback move of that tick is a collision and the loop ends in that
\* tick.
C16_FallbackTerminates ==
    [][ (pc = "loop" /\ ValidSet = {}) => (pc' = "done" /\ ~running') ]_vars

\* C16, amended: whenever no move is valid at the start of a tick, the
\* tick moves Right.  If the cell to the right of the head is out of bounds
\* or a snake cell, the loop ends in that tick; if it is an obstacle, the
\* tick is an obstacle hit (the snake moves onto the cell, the score takes
\* the penalty, the obstacle is removed) and the loop keeps running.
C16_FallbackTerminatesOrHits ==
    [][ (pc = "loop" /\ ValidSet = {}) =>
            LET c == Step(snake[1], RIGHT)
            IN  /\ direction' = RIGHT
                /\ IF InList(c, obstacles)
                   THEN /\ pc' = "loop"
                        /\ running'
                        /\ snake'[1] = c
                        /\ score' = Max(0, score - ObstaclePenalty)
                        /\ ~InList(c, obstacles')
                   ELSE /\ pc' = "done"
                        /\ ~running'
                        /\ snake' = snake
      ]_vars

\* A snake of two cells or more fell back onto an obstacle and runs on.
C16_FallbackOntoObstacle ==
    /\ ev.hit
    /\ direction = RIGHT
    /\ pc = "loop"
    /\ running
    /\ Len(snake) >= 2

\* C17: loading the high score never fails its caller: it returns 0 when
\* the file is absent, 0 when it is empty, and 0 when its content is no
\* integer.
C17_LoadNeverFails ==
    ev.kind = "init" =>
        /\ pc = "loop"
        /\ running
        /\ (\/ ~file.exists
            \/ Strip(file.content) = <<>>
            \/ ~IntParses(Strip(file.content))) => high_score = 0

\* C18: a failure to write the file does not abort the run: every step of
\* the loop leaves it running or ended by a collision, never by an
\* exception, and a tick that eats leaves the score and the high score it
\* should.
C18_StorageFailureSurvived ==
    [][ pc = "loop" =>
           /\ pc' # "crashed"
           /\ (pc' = "loop" /\ snake'[1] = fruit) =>
                  /\ score' = score + FoodReward
                  /\ high_score' = IF score' > high_score THEN score'
                                   ELSE high_score
      ]_vars

\* C19: a quit signal raised while the loop runs is seen at the next tick
\* boundary: the next step of the loop ends it and changes nothing of the
\* game.
C19_QuitObserved ==
    [][ (pc = "loop" /\ events # <<>> /\ events' = events) =>
            /\ pc' = "done"
            /\ UNCHANGED <<snake, fruit, obstacles, score, high_score>>
      ]_vars

\* What a tick does as a function of the state it starts in: the heading it
\* takes (Heading holds of one direction only: RIGHT when no move is valid,
\* else the valid move that is nearest to the food and, among the nearest,
\* first in the order) and, for the cell t the head moves to, the obstacles that stay,
\* the snake before its tail is dropped and the score.
Heading(h) ==
    LET head == snake[1]
        near == ToFood(h)
    IN  IF FreeCell(Step(head, h))
        THEN /\ h \in FourMoves
             /\ \A n \in FourMoves :
                    (n # h /\ FreeCell(Step(head, n))) =>
                        LET far == ToFood(n)
                        IN  near < far \/ (near = far /\ Rank(h) < Rank(n))
        ELSE /\ h = RIGHT
             /\ \A n \in FourMoves : ~FreeCell(Step(head, n))
Due == now - last_obstacle_time > ObstaclePeriod
Remaining(t) == SelectSeq(obstacles, LAMBDA o : o # t)
Grown(t) == <<t>> \o snake
Scored(t) ==
    (IF InList(t, obstacles) THEN Max(0, score - ObstaclePenalty) ELSE score)
    + (IF t = fruit THEN FoodReward ELSE 0)

\* C20: the state a tick leaves is a function of the state it starts in, of
\* the cells drawn in it (the new food, the new obstacle) and of the clock:
\* two runs from the same state with the same draws and the same clock
\* readings go through the same snake, food, obstacles, score, high score
\* and heading, tick by tick.
C20_Deterministic ==
    [][ (pc = "loop" /\ pc' # "crashed") =>
          LET t == Step(snake[1], direction')
              eats == t = fruit
              scored == Scored(t)
              remaining == Remaining(t)
          IN  /\ Heading(direction')
              /\ IF Terminal(t)
                 THEN /\ pc' = "done"
                      /\ UNCHANGED <<snake, fruit, obstacles, score,
                                     high_score, last_obstacle_time, now,
                                     file>>
                 ELSE /\ pc' \in {"loop", "hung"}
                      /\ snake'[1] = t
                      /\ pc' = "loop" =>
                           /\ snake' = IF eats THEN Grown(t)
                                       ELSE SubSeq(Grown(t), 1, Len(snake))
                           /\ score' = scored
                           /\ high_score' = IF eats /\ scored > high_score
                                            THEN scored ELSE high_score
                           /\ ~eats => fruit' = fruit
                           /\ SubSeq(obstacles', 1, Len(remaining)) = remaining
                           /\ Len(obstacles') =
                                  Len(remaining) + (IF Due THEN 1 ELSE 0)
                           /\ last_obstacle_time' =
                                  IF Due THEN now ELSE last_obstacle_time
                           /\ IF eats /\ scored > high_score
                              THEN load_high_score(file') = scored
                              ELSE file' = file
      ]_vars

\* A tick ate the food and spawned an obstacle, the second of the run.
C20_AteAndSpawned ==
    /\ ev.kind = "eat"
    /\ ev.spawned
    /\ pc = "loop"
    /\ hist.spawns >= 2

\* C21: when snake, obstacles and food fill the arena, the spawner gives
\* up with a failure and the tick that asked for the position completes:
\* no iteration of the loop stays inside random_position for ever.
C21_PlacementCompletes == pc # "hung"

\* C23: when some cell is not in the excluded list, random_position
\* returns (the draws being fair), and the position it returns is aligned
\* to the grid, in bounds and not in the excluded list.
C23_SamplerReturnsFreeCell ==
    /\ [](pc = "returned" =>
            /\ fruit[1] % CELL_SIZE = 0
            /\ fruit[2] % CELL_SIZE = 0
            /\ InBounds(fruit)
            /\ ~InList(fruit, snake)
            /\ ~InList(fruit, obstacles))
    /\ (pc = "sampling" /\
           \E c \in Cells : ~InList(c, snake) /\ ~InList(c, obstacles))
         ~> (pc = "returned")

\* The sampler returned a position for a snake of two cells and an
\* obstacle on a third cell.
C23_ReturnedPastThreeCells ==
    /\ pc = "returned"
    /\ Len(snake) = 2
    /\ Len(obstacles) = 1
    /\ Cardinality({snake[1], snake[2], obstacles[1]}) = 3

\* C22: a tick changes the high score and writes it to the file if and
\* only if it eats the food and the score after the reward is strictly
\* above the high score; the file then reads back as that score.  A score
\* equal to or below the high score, and an obstacle penalty, change
\* neither the high score nor the file.  (A tick that stays in
\* random_position may have written before; it never writes otherwise.)
C22_WriteIffExceeded ==
    [][Iteration =>
         LET c == Candidate
             eats == ~Terminal(c) /\ c = fruit
             after == (IF InList(c, obstacles)
                       THEN Max(0, score - ObstaclePenalty)
                       ELSE score) + FoodReward
             exceeds == eats /\ after > high_score
         IN  /\ (high_score' # high_score \/ file' # file) => exceeds
             /\ (exceeds /\ pc' = "loop") =>
                    /\ high_score' = after
                    /\ file' # file
             /\ file' # file =>
                    /\ high_score' = after
                    /\ load_high_score(file') = after
      ]_vars

\* A tick ate the food and reached exactly the high score: nothing was
\* written.
C22_EqualledHighScore ==
    /\ pc = "loop"
    /\ ev.kind = "eat"
    /\ ~ev.saved
    /\ score = high_score

\* C24: in every tick the snake's length grows by exactly one when the
\* new head lands on the food and stays the same otherwise; a tick whose
\* head lands on an obstacle keeps the length, removes that obstacle and
\* never raises the score.  So the length never decreases.
C24_LengthGrowsOnFoodOnly ==
    [][Iteration =>
         LET c == Candidate
             eats == ~Terminal(c) /\ c = fruit
             hit == ~Terminal(c) /\ InList(c, obstacles)
         IN  /\ Len(snake') = Len(snake) + (IF eats THEN 1 ELSE 0)
             /\ hit => /\ Len(snake') = Len(snake)
                        /\ score' <= score
                        /\ score' = Max(0, score - ObstaclePenalty)
      ]_vars

\* A tick hit an obstacle with a snake of three cells or more, which it
\* still has.
C24_HitKeptLength ==
    /\ pc = "loop"
    /\ ev.hit
    /\ Len(snake) >= 3

\* C25: in every tick get_direction_to_food can return one value only
\* for the state of the tick (random.choice is never reached), that value
\* is one of UP, DOWN, LEFT, RIGHT, it becomes the heading (the previous
\* heading is never kept in its place) and the move is made with it: the
\* new head is the old head one cell further in that direction.
C25_HeadingIsReturnedDirection ==
    [][Iteration =>
         LET returned == get_direction_to_food(snake, fruit, obstacles)
         IN  /\ Cardinality(returned) = 1
             /\ returned \subseteq {UP, DOWN, LEFT, RIGHT}
             /\ direction' \in returned
             /\ pc' # "done" => snake'[1] = Step(snake[1], direction')
      ]_vars

\* The snake has just turned: the heading of the last tick is not the one
\* of the tick before.
C25_Turned ==
    /\ pc = "loop"
    /\ Len(snake) >= 3
    /\ snake[1] = Step(snake[2], direction)
    /\ snake[2] # Step(snake[3], direction)

\* C27: when the state of a tick has at least one valid move, the tick
\* neither ends the run nor hits an obstacle.  The loop ends only from a
\* state with no valid move, and a penalty is applied only in a tick with
\* no valid move whose cell to the right of the head is an obstacle.
C27_ValidMoveNoEndNoHit ==
    [][Iteration =>
         LET right == Step(snake[1], RIGHT)
             none == \A m \in FourMoves : ~FreeCell(Step(snake[1], m))
             penalty == \/ Len(obstacles') < Len(obstacles)
                        \/ score' < score
                        \/ ev'.hit
         IN  /\ pc' = "done" => none
             /\ penalty => none /\ InList(right, obstacles)
             /\ ~none => /\ pc' # "done"
                         /\ ~InList(snake'[1], obstacles)
                         /\ score' >= score
                         /\ Len(obstacles') >= Len(obstacles)
      ]_vars

\* The run ended in a state where the snake had three cells or more.
C27_EndedShutIn ==
    /\ pc = "done"
    /\ Len(snake) >= 3
    /\ \A m \in FourMoves : ~FreeCell(Step(snake[1], m))

\* TrappedByBody: no obstacle is next to the head, and every neighbour of
\* the head that is in bounds is a snake cell.
TrappedByBody ==
    \A m \in FourMoves :
        LET c == Step(snake[1], m)
        IN  /\ \A i \in 1..Len(obstacles) : obstacles[i] # c
            /\ InBounds(c) => \E i \in 1..Len(snake) : snake[i] = c

\* C26: the greedy choice can shut the snake in by its own body alone.
\* Such a state is reachable (C26_ShutInByBody); and whenever the loop is
\* in one, get_valid_directions returns the empty list, the controller
\* falls back to RIGHT, and the snake has four cells or more.
C26_BodyTrapHasNoValidMove ==
    (pc = "loop" /\ TrappedByBody) =>
        /\ get_valid_directions(snake, obstacles) = <<>>
        /\ get_direction_to_food(snake, fruit, obstacles) = {RIGHT}
        /\ Len(snake) >= 4

\* The loop is about to run a tick with the head shut in by the body
\* alone, in a run where no obstacle has appeared yet.
C26_ShutInByBody ==
    /\ pc = "loop"
    /\ TrappedByBody
    /\ get_valid_directions(snake, obstacles) = <<>>
    /\ hist.spawns = 0

OnGrid(c) ==
    /\ c[1] % CELL_SIZE = 0 /\ c[2] % CELL_SIZE = 0
    /\ 0 <= c[1] /\ c[1] < WIDTH
    /\ 0 <= c[2] /\ c[2] < HEIGHT

\* C29: at every tick boundary every snake cell, the food cell and every
\* obstacle cell is in bounds and aligned to the grid, and two consecutive
\* snake cells are exactly one cell apart along exactly one axis.
C29_CellsOnGridSnakeConnected ==
    pc \in {"loop", "done"} =>
        /\ \A i \in 1..Len(snake) : OnGrid(snake[i])
        /\ OnGrid(fruit)
        /\ \A i \in 1..Len(obstacles) : OnGrid(obstacles[i])
        /\ \A i \in 1..(Len(snake) - 1) :
              LET dx == snake[i][1] - snake[i + 1][1]
                  dy == snake[i][2] - snake[i + 1][2]
              IN  \/ dx \in {CELL_SIZE, 0 - CELL_SIZE} /\ dy = 0
                  \/ dx = 0 /\ dy \in {CELL_SIZE, 0 - CELL_SIZE}

\* A snake of four cells or more lies across both rows, with two
\* obstacles on the board.
C29_BentSnakeAmongObstacles ==
    /\ pc = "loop"
    /\ Len(snake) >= 4
    /\ snake[1][2] # snake[Len(snake)][2]
    /\ Len(obstacles) >= 2

\* C30: at every tick boundary the score is at most five times the food
\* eaten so far, 5 * (length of the snake - 1), and equal to it exactly
\* when no obstacle penalty has ever taken anything off the score in this
\* run; the difference is what the penalties have taken.
C30_ScoreBoundedByFood ==
    pc \in {"loop", "done"} =>
        /\ score <= FoodReward * (Len(snake) - 1)
        /\ score = FoodReward * (Len(snake) - 1) <=> hist.lost = 0
        /\ score = FoodReward * (Len(snake) - 1) - hist.lost

\* A penalty has taken points off the score and the snake has just eaten
\* again, to a score above one reward.
C30_PenalisedThenAte ==
    /\ pc = "loop"
    /\ hist.lost > 0
    /\ ev.kind = "eat"
    /\ score > FoodReward

====
